---- MODULE Spec2Model ----
(***************************************************************************)
(* Model of kernel/vmm.c of riscv-pke: the Sv39-style three level page     *)
(* table (page_walk, map_pages, lookup_pa, user_va_to_pa, user_vm_map,     *)
(* user_vm_unmap) and the user heap built on it (the recyclable node pools *)
(* of get_element / delete_element, user_malloc, user_free).               *)
(*                                                                         *)
(* Addresses are natural numbers.  The platform is scaled down: a page has *)
(* PGSIZE bytes and a page-table page has NEnt entries.  Physical page     *)
(* frame f occupies the physical addresses f*PGSIZE .. f*PGSIZE+PGSIZE-1;  *)
(* physical address 0 is the NULL pointer.                                 *)
(***************************************************************************)
EXTENDS Integers, Sequences, FiniteSets, TLC

(***************************************************************************)
(* Platform constants (riscv.h), scaled.                                   *)
(***************************************************************************)
RECURSIVE Pow(_, _)
Pow(b, e) == IF e = 0 THEN 1 ELSE b * Pow(b, e - 1)

PGSHIFT == 2
PGSIZE == Pow(2, PGSHIFT)
IdxBits == 2
NEnt == Pow(2, IdxBits)
PteFlagShift == 10
PteFlagUnit == Pow(2, PteFlagShift)
MAXVA == Pow(2, IdxBits + IdxBits + IdxBits + PGSHIFT - 1)

PTE_V == 1
PTE_R == 2
PTE_W == 4
PTE_X == 8
PTE_U == 16
PTE_A == 64
PTE_D == 128

PROT_NONE == 0
PROT_READ == 1
PROT_WRITE == 2
PROT_EXEC == 4

NULL == 0

(***************************************************************************)
(* Bounds of the model.                                                    *)
(***************************************************************************)
NTableFrames == 2      \* frames on the free list when the page-table runs start
NHeld == 3             \* frames the caller of user_vm_map owns and may map
MaxOps == 4            \* operations in a run of the heap
MaxHeapPages == 4      \* virtual pages the bump cursor may hand out
MaxBigPages == 3       \* the largest request, in pages
MaxSmallOps == 6       \* operations in a run of the small path
MaxCycleOps == 40      \* operations in a run of malloc/free cycles
MaxSegOps == 5         \* operations in a run of the segment list
MaxUser == 2           \* the largest value of the user argument of prot_to_type

(***************************************************************************)
(* C integer operators.                                                    *)
(***************************************************************************)
RECURSIVE BitOr(_, _)
BitOr(a, b) ==
  IF a = 0 THEN b
  ELSE IF b = 0 THEN a
  ELSE (IF a % 2 = 1 \/ b % 2 = 1 THEN 1 ELSE 0) + 2 * BitOr(a \div 2, b \div 2)

RECURSIVE BitAnd(_, _)
BitAnd(a, b) ==
  IF a = 0 \/ b = 0 THEN 0
  ELSE (IF a % 2 = 1 /\ b % 2 = 1 THEN 1 ELSE 0) + 2 * BitAnd(a \div 2, b \div 2)

BitClear(a, b) == a - BitAnd(a, b)

ROUNDDOWN(a, b) == (a \div b) * b

PA2PTE(pa) == (pa \div PGSIZE) * PteFlagUnit

PTE2PA(pte) == (pte \div PteFlagUnit) * PGSIZE

PX(level, va) == (va \div (PGSIZE * Pow(NEnt, level))) % NEnt

(***************************************************************************)
(* Physical frames.  Frame RootFrame is the page directory of the current  *)
(* process.  The external physical page allocator (pmm) is a queue of free *)
(* frames: alloc_page takes the head (NULL when empty), free_page appends. *)
(***************************************************************************)
RootFrame == 1
NFrames == 16
Frames == 1..NFrames
page_dir == RootFrame * PGSIZE

FrameOf(pa) == pa \div PGSIZE

ZeroPage == [i \in 0..(NEnt - 1) |-> 0]

IsFrameAddr(pa) == pa % PGSIZE = 0 /\ FrameOf(pa) \in Frames

alloc_page(q) ==
  IF q = <<>> THEN [pa |-> NULL, fq |-> q]
  ELSE [pa |-> Head(q) * PGSIZE, fq |-> Tail(q)]

free_page(q, pa) == IF IsFrameAddr(pa) THEN Append(q, FrameOf(pa)) ELSE q

VARIABLES
  mem,           \* contents of the frames used as page-table pages
  fq,            \* the free list of the physical page allocator
  nd,            \* the fields of the list heads and of the pool nodes
  g_ufree_page,  \* the bump cursor of the user heap
  carved,        \* per pool (keyed by its empty list head), the frames it carved
  held,          \* frames owned by the caller of user_vm_map, not mapped yet
  panicked,      \* panic() was called: the kernel has halted
  site,          \* the permission request (prot, user) of the mapping calls of the run
  last,          \* the last operation, its arguments and its result
  hist,          \* the operations on the heap so far, oldest first
  everMapped     \* the pages that had a valid leaf entry after some operation

vars == <<mem, fq, nd, g_ufree_page, carved, held, panicked, site, last, hist, everMapped>>

(***************************************************************************)
(* page_walk.  A PTE pointer is <<frame, index>>; NoPte is the NULL PTE    *)
(* pointer.  The result carries the memory and the free list as the walk   *)
(* left them.                                                              *)
(***************************************************************************)
NoPte == <<0, 0>>

WalkResult(m, q, pte, panic) == [mem |-> m, fq |-> q, pte |-> pte, panic |-> panic]

RECURSIVE WalkLevel(_, _, _, _, _, _)

\* The branch of page_walk for an invalid entry idx of table frame f, a the
\* result of alloc_page.
WalkAlloc(m, a, f, idx, level, va, alloc) ==
  IF a.pa # NULL
  THEN WalkLevel([[m EXCEPT ![FrameOf(a.pa)] = ZeroPage]
                     EXCEPT ![f][idx] = BitOr(PA2PTE(a.pa), PTE_V)],
                 a.fq, a.pa, level - 1, va, alloc)
  ELSE WalkResult(m, a.fq, NoPte, FALSE)

WalkLevel(m, q, pt, level, va, alloc) ==
  IF level = 0
  THEN WalkResult(m, q, <<FrameOf(pt), PX(0, va)>>, FALSE)
  ELSE IF BitAnd(m[FrameOf(pt)][PX(level, va)], PTE_V) # 0
  THEN WalkLevel(m, q, PTE2PA(m[FrameOf(pt)][PX(level, va)]), level - 1, va, alloc)
  ELSE IF alloc # 0
  THEN WalkAlloc(m, alloc_page(q), FrameOf(pt), PX(level, va), level, va, alloc)
  ELSE WalkResult(m, q, NoPte, FALSE)

\* page_walk without the check of va against MAXVA.
page_walk_unchecked(m, q, dir, va, alloc) == WalkLevel(m, q, dir, 2, va, alloc)

page_walk(m, q, dir, va, alloc) ==
  IF va >= MAXVA
  THEN WalkResult(m, q, NoPte, TRUE)
  ELSE WalkLevel(m, q, dir, 2, va, alloc)

Deref(m, pte) == m[pte[1]][pte[2]]

Store(m, pte, val) == [m EXCEPT ![pte[1]][pte[2]] = val]

(***************************************************************************)
(* map_pages.  ret is 0 or -1; panic is TRUE when the call ended in        *)
(* panic(), and then mem and fq are the state at the moment of the panic;  *)
(* done counts the leaf entries the call has written.                      *)
(***************************************************************************)
MapResult(m, q, ret, panic, done) ==
  [mem |-> m, fq |-> q, ret |-> ret, panic |-> panic, done |-> done]

RECURSIVE MapLoop(_, _, _, _, _, _, _, _)

\* The iteration of map_pages without the check of PTE_V.
MapPageOverwrite(w, dir, first, lastpg, pa, perm, done) ==
  IF w.panic THEN MapResult(w.mem, w.fq, 0, TRUE, done)
  ELSE IF w.pte = NoPte THEN MapResult(w.mem, w.fq, -1, FALSE, done)
  ELSE MapLoop(Store(w.mem, w.pte, BitOr(BitOr(PA2PTE(pa), perm), PTE_V)),
               w.fq, dir, first + PGSIZE, lastpg, pa + PGSIZE, perm, done + 1)

\* One iteration of the loop of map_pages, w the result of its page_walk.
MapPage(w, dir, first, lastpg, pa, perm, done) ==
  IF w.panic THEN MapResult(w.mem, w.fq, 0, TRUE, done)
  ELSE IF w.pte = NoPte THEN MapResult(w.mem, w.fq, -1, FALSE, done)
  ELSE IF BitAnd(Deref(w.mem, w.pte), PTE_V) # 0 THEN MapResult(w.mem, w.fq, 0, TRUE, done)
  ELSE MapLoop(Store(w.mem, w.pte, BitOr(BitOr(PA2PTE(pa), perm), PTE_V)),
               w.fq, dir, first + PGSIZE, lastpg, pa + PGSIZE, perm, done + 1)

MapLoop(m, q, dir, first, lastpg, pa, perm, done) ==
  IF first > lastpg
  THEN MapResult(m, q, 0, FALSE, done)
  ELSE MapPage(page_walk(m, q, dir, first, 1), dir, first, lastpg, pa, perm, done)

map_pages(m, q, dir, va, size, pa, perm) ==
  MapLoop(m, q, dir, ROUNDDOWN(va, PGSIZE), ROUNDDOWN(va + size - 1, PGSIZE), pa, perm, 0)

\* prot_to_type without "if (perm == 0) perm = PTE_R".
prot_to_type_no_default(prot, user) ==
  LET p1 == IF BitAnd(prot, PROT_READ) # 0 THEN BitOr(PTE_R, PTE_A) ELSE 0
      p2 == IF BitAnd(prot, PROT_WRITE) # 0 THEN BitOr(p1, BitOr(PTE_W, PTE_D)) ELSE p1
      p3 == IF BitAnd(prot, PROT_EXEC) # 0 THEN BitOr(p2, BitOr(PTE_X, PTE_A)) ELSE p2
  IN  IF user # 0 THEN BitOr(p3, PTE_U) ELSE p3

prot_to_type(prot, user) ==
  LET p1 == IF BitAnd(prot, PROT_READ) # 0 THEN BitOr(PTE_R, PTE_A) ELSE 0
      p2 == IF BitAnd(prot, PROT_WRITE) # 0 THEN BitOr(p1, BitOr(PTE_W, PTE_D)) ELSE p1
      p3 == IF BitAnd(prot, PROT_EXEC) # 0 THEN BitOr(p2, BitOr(PTE_X, PTE_A)) ELSE p2
      p4 == IF p3 = 0 THEN PTE_R ELSE p3
  IN  IF user # 0 THEN BitOr(p4, PTE_U) ELSE p4

(***************************************************************************)
(* lookup_pa and user_va_to_pa.                                            *)
(***************************************************************************)
LookupResult(w, ret, panic) == [mem |-> w.mem, fq |-> w.fq, ret |-> ret, panic |-> panic]

\* lookup_pa reporting readable entries only.
LookupPteReadable(w) ==
  IF w.panic THEN LookupResult(w, 0, TRUE)
  ELSE IF \/ w.pte = NoPte
          \/ BitAnd(Deref(w.mem, w.pte), PTE_V) = 0
          \/ BitAnd(Deref(w.mem, w.pte), PTE_R) = 0
  THEN LookupResult(w, 0, FALSE)
  ELSE LookupResult(w, PTE2PA(Deref(w.mem, w.pte)), FALSE)

\* lookup_pa after its page_walk returned w.
LookupPte(w) ==
  IF w.panic THEN LookupResult(w, 0, TRUE)
  ELSE IF \/ w.pte = NoPte
          \/ BitAnd(Deref(w.mem, w.pte), PTE_V) = 0
          \/ (/\ BitAnd(Deref(w.mem, w.pte), PTE_R) = 0
              /\ BitAnd(Deref(w.mem, w.pte), PTE_W) = 0)
  THEN LookupResult(w, 0, FALSE)
  ELSE LookupResult(w, PTE2PA(Deref(w.mem, w.pte)), FALSE)

\* lookup_pa walking with creation of the missing tables.
lookup_pa_creating(m, q, dir, va) ==
  IF va >= MAXVA
  THEN [mem |-> m, fq |-> q, ret |-> 0, panic |-> FALSE]
  ELSE LookupPte(page_walk(m, q, dir, va, 1))

lookup_pa(m, q, dir, va) ==
  IF va >= MAXVA
  THEN [mem |-> m, fq |-> q, ret |-> 0, panic |-> FALSE]
  ELSE LookupPte(page_walk(m, q, dir, va, 0))

\* user_va_to_pa after its lookup_pa returned l.
AddOffset(l, va) ==
  IF l.ret = 0
  THEN [l EXCEPT !.ret = NULL]
  ELSE [l EXCEPT !.ret = BitOr(l.ret, BitAnd(va, Pow(2, PGSHIFT) - 1))]

user_va_to_pa(m, q, dir, va) == AddOffset(lookup_pa(m, q, dir, va), va)

(***************************************************************************)
(* user_vm_unmap.  The parameter free is not read by the code.  freed is   *)
(* the sequence of the arguments of its free_page calls.                   *)
(***************************************************************************)
RECURSIVE UnmapLoop(_, _, _, _, _, _)

\* The iteration of user_vm_unmap that frees the page and leaves PTE_V set.
UnmapPageKeepValid(w, dir, first, lastpg, log) ==
  IF w.panic THEN [mem |-> w.mem, fq |-> w.fq, freed |-> log, panic |-> TRUE]
  ELSE IF w.pte = NoPte THEN UnmapLoop(w.mem, w.fq, dir, first + PGSIZE, lastpg, log)
  ELSE UnmapLoop(w.mem, free_page(w.fq, PTE2PA(Deref(w.mem, w.pte))),
                 dir, first + PGSIZE, lastpg,
                 Append(log, PTE2PA(Deref(w.mem, w.pte))))

\* One iteration of the loop of user_vm_unmap, w the result of its page_walk.
UnmapPage(w, dir, first, lastpg, log) ==
  IF w.panic THEN [mem |-> w.mem, fq |-> w.fq, freed |-> log, panic |-> TRUE]
  ELSE IF w.pte = NoPte THEN UnmapLoop(w.mem, w.fq, dir, first + PGSIZE, lastpg, log)
  ELSE UnmapLoop(Store(w.mem, w.pte, BitClear(Deref(w.mem, w.pte), PTE_V)),
                 free_page(w.fq, PTE2PA(BitClear(Deref(w.mem, w.pte), PTE_V))),
                 dir, first + PGSIZE, lastpg,
                 Append(log, PTE2PA(BitClear(Deref(w.mem, w.pte), PTE_V))))

UnmapLoop(m, q, dir, first, lastpg, log) ==
  IF first > lastpg
  THEN [mem |-> m, fq |-> q, freed |-> log, panic |-> FALSE]
  ELSE UnmapPage(page_walk(m, q, dir, first, 1), dir, first, lastpg, log)

user_vm_unmap(m, q, dir, va, size, free) ==
  UnmapLoop(m, q, dir, ROUNDDOWN(va, PGSIZE), ROUNDDOWN(va + size - 1, PGSIZE), <<>>)

(***************************************************************************)
(* The recyclable node pools.  A node is addressed by the physical address *)
(* of its slot; the four list heads are kernel globals, given negative     *)
(* addresses.  nd maps every address that was written to its fields; a     *)
(* slot never written reads as zero: physical memory starts zeroed and no  *)
(* operation modelled here stores into a user page, so a page alloc_page   *)
(* hands out is zero beyond its first word, which get_element clears.      *)
(***************************************************************************)
valid_page_info_head == -1
empty_page_info_head == -2
valid_segment_info_head == -3
empty_segment_info_head == -4
Heads == {valid_page_info_head, empty_page_info_head,
          valid_segment_info_head, empty_segment_info_head}

SizeofSegmentInfo == 1
SizeofPageInfo == 2

ZeroNode == [pre |-> NULL, suc |-> NULL, va |-> 0, size |-> 0, occupy |-> 0, next |-> NULL]

Rd(n, a) == IF a \in DOMAIN n THEN n[a] ELSE ZeroNode

SetF(n, a, fld, v) ==
  IF a \in DOMAIN n
  THEN [n EXCEPT ![a][fld] = v]
  ELSE n @@ (a :> [ZeroNode EXCEPT ![fld] = v])

bid_linked_list_del(n, p) ==
  LET n1 == IF Rd(n, p).pre # NULL THEN SetF(n, Rd(n, p).pre, "suc", Rd(n, p).suc) ELSE n
  IN  IF Rd(n1, p).suc # NULL THEN SetF(n1, Rd(n1, p).suc, "pre", Rd(n1, p).pre) ELSE n1

bid_linked_list_app(n, p, np) ==
  LET n1 == SetF(n, np, "pre", p)
      n2 == SetF(n1, np, "suc", Rd(n1, p).suc)
      n3 == IF Rd(n2, p).suc # NULL THEN SetF(n2, Rd(n2, p).suc, "pre", np) ELSE n2
  IN  SetF(n3, p, "suc", np)

delete_element(n, empty, p) == bid_linked_list_app(bid_linked_list_del(n, p), empty, p)

(***************************************************************************)
(* The state the heap operations thread through: S.mem, S.fq as above,     *)
(* S.nd the node store, S.cur the cursor g_ufree_page, S.freed the log of  *)
(* free_page arguments, S.carved the pages each pool has carved, S.ret the *)
(* value returned, S.panic a call of panic(), S.crash a store through a    *)
(* NULL pointer (alloc_page exhausted, its result unchecked).              *)
(***************************************************************************)
Stopped(S) == S.panic \/ S.crash

Fuel(n) == Cardinality(DOMAIN n) + 1

RECURSIVE Carve(_, _, _, _, _)
\* The carving loop of get_element.  The list heads are always in the store:
\* reading its domain has the store of one iteration evaluated before the
\* next iteration starts.
Carve(n, empty, pa, i, size) ==
  IF i + size <= PGSIZE /\ Heads \subseteq DOMAIN n
  THEN Carve(delete_element(n, empty, pa + i), empty, pa, i + size, size)
  ELSE n

\* The tail of get_element: detach the head of the empty list and return it.
TakeNode(S, ret) == [S EXCEPT !.nd = bid_linked_list_del(S.nd, ret), !.ret = ret]

\* The refill branch of get_element, a the result of alloc_page.
Refill(S, a, empty, size) ==
  IF a.pa = NULL
  THEN [S EXCEPT !.crash = TRUE]
  ELSE [S EXCEPT !.fq = a.fq,
                 !.nd = Carve(SetF(S.nd, a.pa, "pre", NULL), empty, a.pa, 0, size),
                 !.carved = [S.carved EXCEPT ![empty] = Append(@, FrameOf(a.pa))]]

TakeHead(S, empty) == IF S.crash THEN S ELSE TakeNode(S, Rd(S.nd, empty).suc)

get_element(S, valid, empty, size) ==
  IF Rd(S.nd, empty).suc = NULL
  THEN TakeHead(Refill(S, alloc_page(S.fq), empty, size), empty)
  ELSE TakeHead(S, empty)

get_page_info(S) ==
  get_element(S, valid_page_info_head, empty_page_info_head, SizeofPageInfo)

delete_page_info(n, p) == delete_element(n, empty_page_info_head, p)

get_segment_info(S) ==
  get_element(S, valid_segment_info_head, empty_segment_info_head, SizeofSegmentInfo)

\* delete_segment_info that detaches the node and loses it.
lose_segment_info(n, p) == bid_linked_list_del(n, p)

delete_segment_info(n, p) == delete_element(n, empty_segment_info_head, p)

\* VmStore without "g_ufree_page += PGSIZE".
VmStoreNoAdvance(S, a, cur, perm, w) ==
  IF w.panic
  THEN [S EXCEPT !.mem = w.mem, !.fq = w.fq, !.cur = cur, !.panic = TRUE]
  ELSE IF w.pte = NoPte
  THEN [S EXCEPT !.mem = w.mem, !.fq = w.fq, !.cur = cur, !.crash = TRUE]
  ELSE [S EXCEPT !.mem = Store(w.mem, w.pte, BitOr(BitOr(PA2PTE(a.pa), perm), PTE_V)),
                 !.fq = w.fq,
                 !.cur = cur,
                 !.ret = cur]

\* alloc_page_with_vm after its page_walk returned w: a the result of
\* alloc_page, cur the rounded cursor.
VmStore(S, a, cur, perm, w) ==
  IF w.panic
  THEN [S EXCEPT !.mem = w.mem, !.fq = w.fq, !.cur = cur, !.panic = TRUE]
  ELSE IF w.pte = NoPte
  THEN [S EXCEPT !.mem = w.mem, !.fq = w.fq, !.cur = cur, !.crash = TRUE]
  ELSE [S EXCEPT !.mem = Store(w.mem, w.pte, BitOr(BitOr(PA2PTE(a.pa), perm), PTE_V)),
                 !.fq = w.fq,
                 !.cur = cur + PGSIZE,
                 !.ret = cur]

VmWalk(S, a, cur, perm) == VmStore(S, a, cur, perm, page_walk(S.mem, a.fq, page_dir, cur, 1))

alloc_page_with_vm(S, perm) ==
  VmWalk(S, alloc_page(S.fq), ROUNDDOWN(S.cur + PGSIZE - 1, PGSIZE), perm)

(***************************************************************************)
(* user_malloc.                                                            *)
(***************************************************************************)
RECURSIVE LastFit(_, _, _, _)
\* The search loop of user_malloc_small without its break: the last fit.
LastFit(n, p, size, fuel) ==
  IF p = NULL \/ fuel = 0 THEN NULL
  ELSE IF LastFit(n, Rd(n, p).suc, size, fuel - 1) # NULL
  THEN LastFit(n, Rd(n, p).suc, size, fuel - 1)
  ELSE IF Rd(n, p).occupy = 0 /\ Rd(n, p).size >= size THEN p
  ELSE NULL

RECURSIVE FirstFit(_, _, _, _)
FirstFit(n, p, size, fuel) ==
  IF p = NULL \/ fuel = 0 THEN NULL
  ELSE IF Rd(n, p).occupy = 0 /\ Rd(n, p).size >= size THEN p
  ELSE FirstFit(n, Rd(n, p).suc, size, fuel - 1)

SetSegment(n, p, va, size, occupy) ==
  SetF(SetF(SetF(n, p, "va", va), p, "size", size), p, "occupy", occupy)

\* "found->size = size; return found->va;"
SmallDone(S, found, size) ==
  [S EXCEPT !.nd = SetF(S.nd, found, "size", size), !.ret = Rd(S.nd, found).va]

\* The fields of rest, at the address of found.
RestFieldsSameVa(n, found, rest, size) ==
  SetSegment(n, rest, Rd(n, found).va, Rd(n, found).size - size, 0)

\* The fields of rest, n the store after rest was linked behind found.
RestFields(n, found, rest, size) ==
  SetSegment(n, rest, Rd(n, found).va + size, Rd(n, found).size - size, 0)

\* The split branch linking rest behind the list head.
SmallRestAtHead(R, found, size) ==
  IF Stopped(R) THEN R
  ELSE SmallDone([R EXCEPT !.nd = RestFields(bid_linked_list_app(R.nd, valid_segment_info_head,
                                                                 R.ret),
                                             found, R.ret, size)],
                 found, size)

\* The split branch, R the result of its get_segment_info.
SmallRest(R, found, size) ==
  IF Stopped(R) THEN R
  ELSE SmallDone([R EXCEPT !.nd = RestFields(bid_linked_list_app(R.nd, found, R.ret),
                                             found, R.ret, size)],
                 found, size)

\* From "found->occupy = 1" on, S the state with occupy set.
SmallSplit(S, found, size) ==
  IF Rd(S.nd, found).size > size
  THEN SmallRest(get_segment_info(S), found, size)
  ELSE SmallDone(S, found, size)

SmallOccupy(S, found, size) ==
  SmallSplit([S EXCEPT !.nd = SetF(S.nd, found, "occupy", 1)], found, size)

\* "if (!found)", V the result of alloc_page_with_vm.
SmallGrowVm(V, found, size) ==
  IF Stopped(V) THEN V
  ELSE SmallOccupy([V EXCEPT !.nd = SetSegment(V.nd, found, V.ret, PGSIZE, 0)], found, size)

\* "if (!found)", G the result of get_segment_info.
SmallGrow(G, size, perm) ==
  IF Stopped(G) THEN G
  ELSE SmallGrowVm(
         alloc_page_with_vm(
           [G EXCEPT !.nd = bid_linked_list_app(G.nd, valid_segment_info_head, G.ret)], perm),
         G.ret, size)

SmallFound(S, size, perm, hit) ==
  IF hit # NULL THEN SmallOccupy(S, hit, size) ELSE SmallGrow(get_segment_info(S), size, perm)

user_malloc_small(S, size, perm) ==
  SmallFound(S, size, perm,
             FirstFit(S.nd, Rd(S.nd, valid_segment_info_head).suc, size, Fuel(S.nd)))

RECURSIVE BigLoop(_, _, _, _, _)

\* The loop body of user_malloc_big after alloc_page_with_vm returned V.
BigPage(V, now, i, pagenum, perm) ==
  IF Stopped(V) THEN V
  ELSE BigLoop([V EXCEPT !.nd = SetF(V.nd, now, "va", V.ret)], i + 1, pagenum, now, perm)

\* The loop body of user_malloc_big after get_page_info returned G.
BigNode(G, i, pagenum, lastnode, perm) ==
  IF Stopped(G) THEN G
  ELSE BigPage(
         alloc_page_with_vm(
           IF lastnode # NULL
           THEN [G EXCEPT !.nd = SetF(G.nd, lastnode, "next", G.ret)]
           ELSE G, perm),
         G.ret, i, pagenum, perm)

BigLoop(S, i, pagenum, lastnode, perm) ==
  IF i >= pagenum THEN S ELSE BigNode(get_page_info(S), i, pagenum, lastnode, perm)

BigReturn(B, va) == IF Stopped(B) THEN B ELSE [B EXCEPT !.ret = va]

PageNum(size) == (size + PGSIZE + 1) \div PGSIZE

user_malloc_big(S, size, perm) ==
  BigReturn(BigLoop([S EXCEPT !.cur = ROUNDDOWN(S.cur + PGSIZE - 1, PGSIZE)],
                    0, PageNum(size), NULL, perm),
            ROUNDDOWN(S.cur + PGSIZE - 1, PGSIZE))

user_malloc(S, size, perm) ==
  IF size >= PGSIZE THEN user_malloc_big(S, size, perm) ELSE user_malloc_small(S, size, perm)

(***************************************************************************)
(* user_free.                                                              *)
(***************************************************************************)
\* free_page_by_va after its page_walk returned w.
FreeLeaf(S, w) ==
  IF w.panic THEN [S EXCEPT !.mem = w.mem, !.fq = w.fq, !.panic = TRUE]
  ELSE IF w.pte = NoPte THEN [S EXCEPT !.mem = w.mem, !.fq = w.fq]
  ELSE [S EXCEPT !.mem = Store(w.mem, w.pte, BitClear(Deref(w.mem, w.pte), PTE_V)),
                 !.fq = free_page(w.fq, PTE2PA(BitClear(Deref(w.mem, w.pte), PTE_V))),
                 !.freed = Append(S.freed, PTE2PA(BitClear(Deref(w.mem, w.pte), PTE_V)))]

free_page_by_va(S, va) == FreeLeaf(S, page_walk(S.mem, S.fq, page_dir, va, 0))

SamePage(n, a, b) == ROUNDDOWN(Rd(n, a).va, PGSIZE) = ROUNDDOWN(Rd(n, b).va, PGSIZE)

\* "if (p->size == PGSIZE) free_page_by_va(p->va);"
FreeWhole(S, p) ==
  IF Rd(S.nd, p).size = PGSIZE THEN free_page_by_va(S, Rd(S.nd, p).va) ELSE S

\* user_free_small without the merge with the successor.
MergeRightNever(n, p, R) == n

\* The merge with the successor R of p.
MergeRight(n, p, R) ==
  IF R # NULL /\ SamePage(n, R, p) /\ Rd(n, R).occupy = 0
  THEN delete_segment_info(SetF(n, p, "size", Rd(n, p).size + Rd(n, R).size), R)
  ELSE n

\* user_free_small without the merge with the predecessor.
MergeLeftNever(n, p, L) == n

\* The merge with the predecessor L of p.
MergeLeft(n, p, L) ==
  IF L # NULL /\ L # valid_segment_info_head /\ SamePage(n, L, p) /\ Rd(n, L).occupy = 0
  THEN delete_segment_info(
         SetF(SetF(n, p, "va", Rd(n, L).va), p, "size", Rd(n, p).size + Rd(n, L).size), L)
  ELSE n

FreeMergeRight(n, p) == MergeRight(n, p, Rd(n, p).suc)

FreeMergeLeft(n, p) == FreeMergeRight(MergeLeft(n, p, Rd(n, p).pre), p)

user_free_small(S, p) ==
  FreeWhole([S EXCEPT !.nd = FreeMergeLeft(SetF(S.nd, p, "occupy", 0), p)], p)

RECURSIVE user_free_big(_, _, _)

\* The loop body of user_free_big after free_page_by_va returned S1.
FreeBigNode(S1, q, nxt, fuel) ==
  IF Stopped(S1) THEN S1
  ELSE user_free_big([S1 EXCEPT !.nd = delete_page_info(S1.nd, q)], nxt, fuel - 1)

user_free_big(S, q, fuel) ==
  IF q = NULL \/ fuel = 0 THEN S
  ELSE FreeBigNode(free_page_by_va(S, Rd(S.nd, q).va), q, Rd(S.nd, q).next, fuel)

RECURSIVE FindSegment(_, _, _, _)
FindSegment(n, p, va, fuel) ==
  IF p = NULL \/ fuel = 0 THEN NULL
  ELSE IF Rd(n, p).va = va THEN p
  ELSE FindSegment(n, Rd(n, p).suc, va, fuel - 1)

RECURSIVE FreeBigLoop(_, _, _, _)

\* "p = p->suc" of the second loop of user_free, S1 the state after its body.
FreeBigNext(S1, p, va, fuel) ==
  IF Stopped(S1) THEN S1 ELSE FreeBigLoop(S1, Rd(S1.nd, p).suc, va, fuel - 1)

FreeBigLoop(S, p, va, fuel) ==
  IF p = NULL \/ fuel = 0 THEN S
  ELSE FreeBigNext(IF Rd(S.nd, p).next = NULL /\ Rd(S.nd, p).va = va
                   THEN user_free_big(S, p, Fuel(S.nd))
                   ELSE S,
                   p, va, fuel)

\* The second loop of user_free, S1 the state after the first.
FreePages(S1, va) ==
  IF Stopped(S1) THEN S1
  ELSE FreeBigLoop(S1, Rd(S1.nd, valid_page_info_head).suc, va, Fuel(S1.nd))

\* The first loop of user_free acting on the head of the list on a miss.
FreeSegmentFirst(S, p) ==
  IF p # NULL THEN user_free_small(S, p)
  ELSE IF Rd(S.nd, valid_segment_info_head).suc # NULL
  THEN user_free_small(S, Rd(S.nd, valid_segment_info_head).suc)
  ELSE S

FreeSegment(S, p) == IF p # NULL THEN user_free_small(S, p) ELSE S

user_free(S, va) ==
  FreePages(
    FreeSegment(S, FindSegment(S.nd, Rd(S.nd, valid_segment_info_head).suc, va, Fuel(S.nd))),
    va)

(***************************************************************************)
(* Operations as steps.  last records the call: op its name, va, size, pa, *)
(* perm, flag (alloc of page_walk, free of user_vm_unmap) its arguments,   *)
(* ret its result, freed the arguments of its free_page calls in order.    *)
(***************************************************************************)
OpRec(op, va, size, pa, perm, flag, ret, log) ==
  [op |-> op, va |-> va, size |-> size, pa |-> pa, perm |-> perm, flag |-> flag,
   ret |-> ret, freed |-> log]

NoOp == OpRec("none", 0, 0, 0, 0, 0, 0, <<>>)

MaxPage == MAXVA \div PGSIZE

LeafPte(m, va) ==
  LET w == page_walk(m, <<>>, page_dir, va, 0)
  IN  IF w.pte = NoPte THEN 0 ELSE Deref(w.mem, w.pte)

LeafValid(m, va) == BitAnd(LeafPte(m, va), PTE_V) # 0

HeldFrames == (NFrames - NHeld + 1)..NFrames

Sites == [prot : 0..(PROT_READ + PROT_WRITE + PROT_EXEC), user : {0, 1}]

PagesOf(va, size) == (va \div PGSIZE)..((va + size - 1) \div PGSIZE)

PtVas == {0, PGSIZE, (NEnt - 1) * PGSIZE, NEnt * PGSIZE, MAXVA}
PtSizes == {PGSIZE, 2 * PGSIZE}
UserMapVas == {0, (NEnt - 1) * PGSIZE}
WalkVas == {PGSIZE, MAXVA}
QueryVas == {1, MAXVA}

\* The physical address the caller maps: the lowest frame it holds (NULL
\* when it holds none, which OwnsRange rejects).
HeldPa == IF held = {} THEN NULL ELSE PGSIZE * (CHOOSE f \in held : \A g \in held : f <= g)

\* The caller maps frames it owns, a frame at one address at most.
OwnsRange(va, size, pa) ==
  /\ pa # NULL
  /\ pa % PGSIZE = 0
  /\ \A pg \in PagesOf(va, size) : FrameOf(pa) + (pg - va \div PGSIZE) \in held

Mapped(r, op, va, size, pa, perm, fatal) ==
  /\ mem' = r.mem
  /\ fq' = r.fq
  /\ panicked' = (r.panic \/ (fatal /\ r.ret # 0))
  /\ held' = held \ {FrameOf(pa) + k : k \in 0..(r.done - 1)}
  /\ last' = OpRec(op, va, size, pa, perm, 0, r.ret, <<>>)

MapPages(va, size, pa, perm) ==
  /\ ~panicked
  /\ OwnsRange(va, size, pa)
  /\ Mapped(map_pages(mem, fq, page_dir, va, size, pa, perm), "map_pages",
            va, size, pa, perm, FALSE)
  /\ UNCHANGED <<nd, g_ufree_page, carved, site>>

\* user_vm_map: a failure of map_pages is a panic.
UserVmMap(va, size, pa, perm) ==
  /\ ~panicked
  /\ OwnsRange(va, size, pa)
  /\ Mapped(map_pages(mem, fq, page_dir, va, size, pa, perm), "user_vm_map",
            va, size, pa, perm, TRUE)
  /\ UNCHANGED <<nd, g_ufree_page, carved, site>>

\* The effect of a call that leaves r.mem, r.fq and r.panic behind.
Answered(r, rec) ==
  /\ mem' = r.mem
  /\ fq' = r.fq
  /\ panicked' = r.panic
  /\ last' = rec

\* The caller unmaps pages it mapped or never touched: no leaf entry in the
\* range holds the frame of a mapping that was already undone.
UnmapsOwn(va, size) ==
  \A pg \in PagesOf(va, size) :
     pg < MaxPage => (LeafValid(mem, pg * PGSIZE) \/ LeafPte(mem, pg * PGSIZE) = 0)

UserVmUnmap(va, size, free) ==
  /\ ~panicked
  /\ UnmapsOwn(va, size)
  /\ Answered(user_vm_unmap(mem, fq, page_dir, va, size, free),
              OpRec("user_vm_unmap", va, size, 0, 0, free, 0,
                    user_vm_unmap(mem, fq, page_dir, va, size, free).freed))
  /\ UNCHANGED <<nd, g_ufree_page, carved, held, site>>

PageWalk(va, alloc) ==
  /\ ~panicked
  /\ Answered(page_walk(mem, fq, page_dir, va, alloc),
              OpRec("page_walk", va, 0, 0, 0, alloc,
                    page_walk(mem, fq, page_dir, va, alloc).pte, <<>>))
  /\ UNCHANGED <<nd, g_ufree_page, carved, held, site>>

LookupPa(va) ==
  /\ ~panicked
  /\ Answered(lookup_pa(mem, fq, page_dir, va),
              OpRec("lookup_pa", va, 0, 0, 0, 0, lookup_pa(mem, fq, page_dir, va).ret, <<>>))
  /\ UNCHANGED <<nd, g_ufree_page, carved, held, site>>

UserVaToPa(va) ==
  /\ ~panicked
  /\ Answered(user_va_to_pa(mem, fq, page_dir, va),
              OpRec("user_va_to_pa", va, 0, 0, 0, 0,
                    user_va_to_pa(mem, fq, page_dir, va).ret, <<>>))
  /\ UNCHANGED <<nd, g_ufree_page, carved, held, site>>

ZeroHeads == [h \in Heads |-> ZeroNode]

NoCarved == [h \in {empty_page_info_head, empty_segment_info_head} |-> <<>>]

USER_FREE_ADDRESS_START == PGSIZE

HeapTop == USER_FREE_ADDRESS_START + MaxHeapPages * PGSIZE

\* everMapped collects the pages that had a valid leaf entry after some call,
\* among the pages the calls of the specifications below can reach.
WatchedPages == 0..(HeapTop \div PGSIZE)

Observed ==
  everMapped' = everMapped \cup {pg \in WatchedPages : LeafValid(mem', pg * PGSIZE)}

Untraced == Observed /\ UNCHANGED hist

Traced == Observed /\ hist' = Append(hist, last')

(***************************************************************************)
(* The page-table specification: the page directory is an empty page, the  *)
(* allocator has NTableFrames free frames, the caller owns NHeld frames    *)
(* and maps them readable and writable for the user.                       *)
(***************************************************************************)
UserSite == [prot |-> PROT_READ + PROT_WRITE, user |-> 1]

InitTable(sites) ==
  /\ mem = [f \in Frames |-> ZeroPage]
  /\ fq = [i \in 1..NTableFrames |-> RootFrame + i]
  /\ nd = ZeroHeads
  /\ g_ufree_page = USER_FREE_ADDRESS_START
  /\ carved = NoCarved
  /\ held = HeldFrames
  /\ panicked = FALSE
  /\ site \in sites
  /\ last = NoOp
  /\ hist = <<>>
  /\ everMapped = {}

InitPT == InitTable({UserSite})

NextPT ==
  \/ \E va \in PtVas, size \in PtSizes :
        MapPages(va, size, HeldPa, prot_to_type(site.prot, site.user)) /\ Untraced
  \/ \E va \in UserMapVas, size \in PtSizes :
        UserVmMap(va, size, HeldPa, prot_to_type(site.prot, site.user)) /\ Untraced
  \/ \E va \in PtVas, size \in PtSizes, free \in {0, 1} :
        UserVmUnmap(va, size, free) /\ Untraced
  \/ \E va \in WalkVas, alloc \in {0, 1} : PageWalk(va, alloc) /\ Untraced
  \/ \E va \in QueryVas : LookupPa(va) /\ Untraced
  \/ \E va \in QueryVas : UserVaToPa(va) /\ Untraced

SpecPT == InitPT /\ [][NextPT]_vars

(***************************************************************************)
(* The permission specification: the same page table, mapped with the      *)
(* permission of any call site, Sites, unmapped and read back.             *)
(***************************************************************************)
InitPerm == InitTable(Sites)

NextPerm ==
  \/ \E va \in PtVas, size \in PtSizes :
        MapPages(va, size, HeldPa, prot_to_type(site.prot, site.user)) /\ Untraced
  \/ \E va \in UserMapVas : UserVmUnmap(va, PGSIZE, 1) /\ Untraced
  \/ \E va \in QueryVas : LookupPa(va) /\ Untraced
  \/ \E va \in QueryVas : UserVaToPa(va) /\ Untraced

SpecPerm == InitPerm /\ [][NextPerm]_vars

(***************************************************************************)
(* The heap specification: user_malloc and user_free on an empty heap,     *)
(* next to user_vm_map and user_va_to_pa; hist is the sequence of calls.   *)
(***************************************************************************)
Cur ==
  [mem |-> mem, fq |-> fq, nd |-> nd, cur |-> g_ufree_page, freed |-> <<>>,
   carved |-> carved, ret |-> 0, panic |-> FALSE, crash |-> FALSE]

\* The heap stays below HeapTop and the allocator is not exhausted.
Fits(R) == ~R.crash /\ R.cur <= HeapTop

Commit(R) ==
  /\ mem' = R.mem
  /\ fq' = R.fq
  /\ nd' = R.nd
  /\ g_ufree_page' = R.cur
  /\ carved' = R.carved
  /\ panicked' = R.panic

Returned(R, op, va, size, perm) ==
  /\ Fits(R)
  /\ Commit(R)
  /\ last' = OpRec(op, va, size, 0, perm, 0, R.ret, R.freed)

UserMalloc(size, perm) ==
  /\ ~panicked
  /\ Returned(user_malloc(Cur, size, perm), "user_malloc", 0, size, perm)
  /\ UNCHANGED <<held, site>>

UserFree(va) ==
  /\ ~panicked
  /\ Returned(user_free(Cur, va), "user_free", va, 0, 0)
  /\ UNCHANGED <<held, site>>

\* Sizes of the small path, and of the big path around the page multiples.
MallocSizes ==
  (0..(PGSIZE - 1)) \cup {PGSIZE, PGSIZE + 1, 2 * PGSIZE - 1, 2 * PGSIZE, MaxBigPages * PGSIZE}

\* Addresses a caller may pass to user_free: every address recorded in a
\* node, every address user_malloc returned, and one that is neither.
FreeArgs ==
  {nd[a].va : a \in (DOMAIN nd) \ Heads}
    \cup {hist[i].ret : i \in {j \in 1..Len(hist) : hist[j].op = "user_malloc"}}
    \cup {HeapTop + 1}

\* The caller of user_vm_map maps outside the heap: the page below it.
HeapMapVas == {0}
HeapQueryVas == {USER_FREE_ADDRESS_START + 1, HeapTop + 1}

Init ==
  /\ mem = [f \in Frames |-> ZeroPage]
  /\ fq = [i \in 1..(NFrames - NHeld - 1) |-> RootFrame + i]
  /\ nd = ZeroHeads
  /\ g_ufree_page = USER_FREE_ADDRESS_START
  /\ carved = NoCarved
  /\ held = HeldFrames
  /\ panicked = FALSE
  /\ site = UserSite
  /\ last = NoOp
  /\ hist = <<>>
  /\ everMapped = {}

Next ==
  \/ \E size \in MallocSizes :
        /\ Len(hist) < MaxOps
        /\ UserMalloc(size, prot_to_type(site.prot, site.user))
        /\ Traced
  \/ \E va \in FreeArgs :
        /\ Len(hist) < MaxOps
        /\ UserFree(va)
        /\ Traced
  \/ \E va \in HeapMapVas :
        /\ Len(hist) < MaxOps
        /\ UserVmMap(va, PGSIZE, HeldPa, prot_to_type(site.prot, site.user))
        /\ Traced
  \/ \E va \in HeapQueryVas :
        /\ Len(hist) < MaxOps
        /\ UserVaToPa(va)
        /\ Traced

Spec == Init /\ [][Next]_vars

(***************************************************************************)
(* The small-path specification: on an empty heap, user_malloc of positive *)
(* sizes below PGSIZE and user_free of addresses user_malloc returned.     *)
(***************************************************************************)
SmallSizes == 1..(PGSIZE - 1)

ReturnedVas == {hist[i].ret : i \in {j \in 1..Len(hist) : hist[j].op = "user_malloc"}}

NextSmall ==
  \/ \E size \in SmallSizes :
        /\ Len(hist) < MaxSmallOps
        /\ UserMalloc(size, prot_to_type(site.prot, site.user))
        /\ Traced
  \/ \E va \in ReturnedVas :
        /\ Len(hist) < MaxSmallOps
        /\ UserFree(va)
        /\ Traced

SpecSmall == Init /\ [][NextSmall]_vars

(***************************************************************************)
(* The cycle specification: on an empty heap, user_malloc(s) and user_free *)
(* of the address it returned, over and over, s the size of the first      *)
(* request.                                                                *)
(***************************************************************************)
CycleSizes == 1..(PGSIZE - 1)

CycleMalloc ==
  /\ Len(hist) < MaxCycleOps
  /\ last.op # "user_malloc"
  /\ \E size \in CycleSizes :
        /\ hist # <<>> => size = hist[1].size
        /\ UserMalloc(size, prot_to_type(site.prot, site.user))
  /\ Traced

CycleFree ==
  /\ Len(hist) < MaxCycleOps
  /\ last.op = "user_malloc"
  /\ UserFree(last.ret)
  /\ Traced

NextCycle == CycleMalloc \/ CycleFree

SpecCycle == Init /\ [][NextCycle]_vars

(***************************************************************************)
(* The segment specification: on an empty heap, user_malloc of every size  *)
(* below PGSIZE, 0 included, and user_free of any address of FreeArgs.     *)
(***************************************************************************)
SegSizes == 0..(PGSIZE - 1)

NextSeg ==
  \/ \E size \in SegSizes :
        /\ Len(hist) < MaxSegOps
        /\ UserMalloc(size, prot_to_type(site.prot, site.user))
        /\ Traced
  \/ \E va \in FreeArgs :
        /\ Len(hist) < MaxSegOps
        /\ UserFree(va)
        /\ Traced

SpecSeg == Init /\ [][NextSeg]_vars

(***************************************************************************)
(* Properties of the page table.                                           *)
(***************************************************************************)
\* The permission bits of an entry: its flag bits but PTE_V.
PermBits(pte) == BitClear(pte % PteFlagUnit, PTE_V)

\* The physical page map_pages gave to page pg of the range of the call c.
TargetPa(c, pg) == c.pa + (pg - c.va \div PGSIZE) * PGSIZE

\* The call c, the last one, was map_pages and returned 0.
MapReturned(c) == c.op = "map_pages" /\ c.ret = 0 /\ ~panicked

\* lookup_pa and user_va_to_pa read page pg as mapped to pa.
ReadsBack(pg, pa) ==
  /\ lookup_pa(mem, fq, page_dir, pg * PGSIZE).ret = pa
  /\ \A off \in 0..(PGSIZE - 1) :
        user_va_to_pa(mem, fq, page_dir, pg * PGSIZE + off).ret = pa + off

\* lookup_pa and user_va_to_pa read page pg as unmapped.
ReadsUnmapped(pg) ==
  /\ lookup_pa(mem, fq, page_dir, pg * PGSIZE).ret = 0
  /\ \A off \in 0..(PGSIZE - 1) :
        user_va_to_pa(mem, fq, page_dir, pg * PGSIZE + off).ret = NULL

\* C1 as stated: after map_pages returned 0, for every permission value of
\* prot_to_type, lookup_pa returns pa + k*PGSIZE for every page k of the
\* range, user_va_to_pa adds the offset, and the leaf entry stores perm.
C1_RoundTripEveryPerm ==
  MapReturned(last) =>
    \A pg \in PagesOf(last.va, last.size) :
       /\ ReadsBack(pg, TargetPa(last, pg))
       /\ PermBits(LeafPte(mem, pg * PGSIZE)) = last.perm

\* C1 amended: after map_pages returned 0 every leaf entry of the range is
\* valid and stores its physical page and perm; lookup_pa and user_va_to_pa
\* return the physical address when perm carries PTE_R or PTE_W, and 0/NULL
\* when it carries neither (prot = PROT_EXEC alone).
C1_RoundTrip ==
  MapReturned(last) =>
    \A pg \in PagesOf(last.va, last.size) :
       /\ LeafValid(mem, pg * PGSIZE)
       /\ PTE2PA(LeafPte(mem, pg * PGSIZE)) = TargetPa(last, pg)
       /\ PermBits(LeafPte(mem, pg * PGSIZE)) = last.perm
       /\ IF BitAnd(last.perm, PTE_R + PTE_W) # 0
          THEN ReadsBack(pg, TargetPa(last, pg))
          ELSE ReadsUnmapped(pg)

\* A two-page map_pages with a writable permission has returned 0.
C1_Witness ==
  /\ MapReturned(last)
  /\ last.size = 2 * PGSIZE
  /\ BitAnd(last.perm, PTE_W) # 0
  /\ ReadsBack(last.va \div PGSIZE + 1, last.pa + PGSIZE)

\* The pages below MAXVA.
AllPages == 0..(MaxPage - 1)

IsMapCall(c) == c.op \in {"map_pages", "user_vm_map"}

\* Some page of the range of the call c has a valid leaf entry.
HitsValid(c) == \E pg \in PagesOf(c.va, c.size) \cap AllPages : LeafValid(mem, pg * PGSIZE)

\* A leaf entry that was valid before the step has its contents after it,
\* or lost PTE_V, and nothing else, in an unmap or a free.
ValidLeavesKept ==
  \A pg \in AllPages :
     LeafValid(mem, pg * PGSIZE) =>
        \/ LeafPte(mem', pg * PGSIZE) = LeafPte(mem, pg * PGSIZE)
        \/ /\ last'.op \in {"user_vm_unmap", "user_free"}
           /\ LeafPte(mem', pg * PGSIZE) = BitClear(LeafPte(mem, pg * PGSIZE), PTE_V)

RECURSIVE Count(_, _)
Count(seq, x) ==
  IF seq = <<>> THEN 0
  ELSE (IF Head(seq) = x THEN 1 ELSE 0) + Count(Tail(seq), x)

C10_WalkPastMaxva ==
  [][/\ (last'.op = "page_walk" /\ last'.va >= MAXVA) =>
           /\ panicked'
           /\ mem' = mem
           /\ fq' = fq
           /\ \A alloc \in {0, 1} :
                 /\ page_walk(mem, fq, page_dir, last'.va, alloc).panic
                 /\ page_walk(mem, fq, page_dir, last'.va, alloc).mem = mem
                 /\ page_walk(mem, fq, page_dir, last'.va, alloc).fq = fq
     /\ (last'.op = "lookup_pa" /\ last'.va >= MAXVA) =>
           /\ last'.ret = 0
           /\ ~panicked'
           /\ mem' = mem
           /\ fq' = fq]_vars

\* page_walk with alloc = 1 has panicked on va = MAXVA while the allocator
\* had a free frame, after a lookup_pa of MAXVA earlier in the run.
C10_Witness ==
  /\ last.op = "page_walk"
  /\ last.va >= MAXVA
  /\ last.flag = 1
  /\ panicked
  /\ fq # <<>>

(***************************************************************************)
(* Properties of the heap.                                                 *)
(***************************************************************************)
RECURSIVE ListFrom(_, _, _)
\* The nodes of a list from node p on, in order.
ListFrom(n, p, fuel) ==
  IF p = NULL \/ fuel = 0 THEN <<>>
  ELSE <<p>> \o ListFrom(n, Rd(n, p).suc, fuel - 1)

ListOf(n, head) == ListFrom(n, Rd(n, head).suc, Fuel(n))

Range(seq) == {seq[i] : i \in 1..Len(seq)}

\* The slots of the pages a pool has carved, and those not on its empty list.
PoolNodes(n, c, empty) == {a \in (DOMAIN n) \ Heads : FrameOf(a) \in Range(c[empty])}

HandedOut(n, c, empty) == PoolNodes(n, c, empty) \ Range(ListOf(n, empty))

\* The segments on the valid list that lie in the page at base.
SegsOnPage(n, base) ==
  {a \in Range(ListOf(n, valid_segment_info_head)) : ROUNDDOWN(Rd(n, a).va, PGSIZE) = base}

Segment(n, a) == <<Rd(n, a).va, Rd(n, a).size, Rd(n, a).occupy>>

IsMalloc(c) == c.op = "user_malloc"

\* The run so far is user_malloc(s1), user_malloc(s2) with the sizes of C3.
TwoSmall ==
  /\ Len(hist) = 2
  /\ IsMalloc(hist[1]) /\ IsMalloc(hist[2])
  /\ hist[1].size >= 1 /\ hist[2].size >= 1
  /\ hist[1].size + hist[2].size < PGSIZE

\* C3: from an empty heap, user_malloc(s1) then user_malloc(s2) with
\* s1, s2 >= 1 and s1 + s2 < PGSIZE map exactly one fresh page, the second
\* address is the first plus s1, and the page holds exactly the occupied
\* segments of sizes s1 and s2 and one free segment of the remainder.
C3_SmallLayout ==
  TwoSmall =>
    /\ hist[2].ret = hist[1].ret + hist[1].size
    /\ hist[1].ret = USER_FREE_ADDRESS_START
    /\ g_ufree_page = USER_FREE_ADDRESS_START + PGSIZE
    /\ everMapped = {hist[1].ret \div PGSIZE}
    /\ LeafValid(mem, hist[1].ret)
    /\ Len(ListOf(nd, valid_segment_info_head)) = 3
    /\ Segment(nd, ListOf(nd, valid_segment_info_head)[1])
         = <<hist[1].ret, hist[1].size, 1>>
    /\ Segment(nd, ListOf(nd, valid_segment_info_head)[2])
         = <<hist[1].ret + hist[1].size, hist[2].size, 1>>
    /\ Segment(nd, ListOf(nd, valid_segment_info_head)[3])
         = <<hist[1].ret + hist[1].size + hist[2].size,
             PGSIZE - hist[1].size - hist[2].size, 0>>

\* user_malloc(1) then user_malloc(2) have returned adjacent addresses.
C3_Witness ==
  /\ TwoSmall
  /\ hist[1].size = 1
  /\ hist[2].size = 2
  /\ hist[2].ret = hist[1].ret + 1
  /\ ~panicked

\* The segment user_free(va) acts on: the first of the valid list at va.
Freed(n, va) == FindSegment(n, Rd(n, valid_segment_info_head).suc, va, Fuel(n))

\* The step is a user_free of the last occupied segment of a mapped page.
FreesLastOf(c, p, base) ==
  /\ c.op = "user_free"
  /\ p # NULL
  /\ Rd(nd, p).occupy = 1
  /\ LeafValid(mem, base)
  /\ \A q \in SegsOnPage(nd, base) \ {p} : Rd(nd, q).occupy = 0

\* After it the page holds one free segment of PGSIZE at its base, the
\* other nodes are on the empty list, the page went to free_page once.
Coalesced(c, p, base) ==
  /\ SegsOnPage(nd', base) = {p}
  /\ Segment(nd', p) = <<base, PGSIZE, 0>>
  /\ (SegsOnPage(nd, base) \ {p}) \subseteq Range(ListOf(nd', empty_segment_info_head))
  /\ c.freed = <<PTE2PA(LeafPte(mem, base))>>
  /\ IsFrameAddr(PTE2PA(LeafPte(mem, base)))
  /\ Count(fq', FrameOf(PTE2PA(LeafPte(mem, base)))) = 1
  /\ ~LeafValid(mem', base)
  /\ ~panicked'

Ceil(size) == (size + PGSIZE - 1) \div PGSIZE

\* C5: user_malloc(size) with size >= PGSIZE, here the first call on an
\* empty heap, takes ceil(size / PGSIZE) Page Info nodes, maps that many
\* fresh pages, advances g_ufree_page by that many pages and returns the
\* address of the first page.
C5_BigPageCount ==
  (Len(hist) = 1 /\ IsMalloc(hist[1]) /\ hist[1].size >= PGSIZE) =>
    /\ hist[1].ret = USER_FREE_ADDRESS_START
    /\ g_ufree_page = USER_FREE_ADDRESS_START + Ceil(hist[1].size) * PGSIZE
    /\ Cardinality(everMapped) = Ceil(hist[1].size)
    /\ Cardinality(HandedOut(nd, carved, empty_page_info_head)) = Ceil(hist[1].size)

\* C6: user_malloc(size) with size >= PGSIZE, then user_free of the address
\* of the last page it mapped: every page of the allocation is unmapped and
\* went to free_page, every Page Info node is on the empty list.
C6_BigFree ==
  (/\ Len(hist) = 2
   /\ IsMalloc(hist[1]) /\ hist[1].size >= PGSIZE
   /\ hist[2].op = "user_free" /\ hist[2].va = g_ufree_page - PGSIZE) =>
    /\ \A pg \in everMapped : ~LeafValid(mem, pg * PGSIZE)
    /\ Len(hist[2].freed) = Cardinality(everMapped)
    /\ HandedOut(nd, carved, empty_page_info_head) = {}

\* C8: in cycles of user_malloc(s) and user_free of the address returned,
\* the Segment Info pool carves one page at most: its nodes, on a list or
\* handed out, never exceed floor(PGSIZE / sizeof(segment_info)).
C8_PoolBound ==
  /\ Len(carved[empty_segment_info_head]) <= 1
  /\ Cardinality(PoolNodes(nd, carved, empty_segment_info_head))
       <= PGSIZE \div SizeofSegmentInfo

\* Five cycles are done, more acquisitions than one page has nodes, and
\* the pool still has its first page only.
C8_Witness ==
  /\ Len(hist) >= 10
  /\ last.op = "user_free"
  /\ Len(carved[empty_segment_info_head]) = 1
  /\ Len(ListOf(nd, empty_segment_info_head)) = PGSIZE \div SizeofSegmentInfo - 1

\* C9: user_va_to_pa of an address whose page never had a valid leaf entry
\* returns NULL and leaves the page table and the allocator as they are,
\* after any calls of user_malloc, user_free and user_vm_map.
C9_UnmappedStays ==
  \A va \in 0..(HeapTop + PGSIZE - 1) :
     (va \div PGSIZE) \notin everMapped =>
        /\ user_va_to_pa(mem, fq, page_dir, va).ret = NULL
        /\ user_va_to_pa(mem, fq, page_dir, va).mem = mem
        /\ user_va_to_pa(mem, fq, page_dir, va).fq = fq
        /\ ~user_va_to_pa(mem, fq, page_dir, va).panic

\* user_va_to_pa has returned NULL for an address above the heap after a
\* user_malloc, a user_free and a user_vm_map elsewhere.
C9_Witness ==
  /\ Len(hist) = 4
  /\ last.op = "user_va_to_pa"
  /\ last.va = HeapTop + 1
  /\ last.ret = NULL
  /\ \E i, j, k \in 1..3 :
        /\ IsMalloc(hist[i]) /\ hist[i].size >= 1
        /\ hist[j].op = "user_free" /\ hist[j].freed # <<>>
        /\ hist[k].op = "user_vm_map"
  /\ everMapped # {}

\* The Page Info nodes in use, on the valid list or handed out by
\* get_page_info, that end a chain (next = NULL) and record va.
TerminalPageInfos(n, c, va) ==
  {a \in Range(ListOf(n, valid_page_info_head)) \cup HandedOut(n, c, empty_page_info_head) :
      Rd(n, a).next = NULL /\ Rd(n, a).va = va}

\* The call c is a user_free of an address no tracked allocation starts at.
FreesUntracked(c) ==
  /\ c.op = "user_free"
  /\ Freed(nd, c.va) = NULL
  /\ TerminalPageInfos(nd, carved, c.va) = {}

\* C11: user_free(va) with va the start address of no Segment Info node on
\* the valid list and of no terminal Page Info node leaves the segment list,
\* both pools, g_ufree_page and the page table unchanged, calls free_page
\* zero times and does not panic.
C11_NotFoundNoOp ==
  [][FreesUntracked(last') =>
       /\ nd' = nd
       /\ carved' = carved
       /\ g_ufree_page' = g_ufree_page
       /\ mem' = mem
       /\ fq' = fq
       /\ last'.freed = <<>>
       /\ ~panicked']_vars

\* user_free of an address above the heap has returned while the valid list
\* holds an occupied segment and a free one.
C11_Witness ==
  /\ last.op = "user_free"
  /\ last.va = HeapTop + 1
  /\ last.freed = <<>>
  /\ Freed(nd, last.va) = NULL
  /\ \E a, b \in Range(ListOf(nd, valid_segment_info_head)) :
        Rd(nd, a).occupy = 1 /\ Rd(nd, b).occupy = 0

\* The pages that have a valid leaf entry after the step and had none before:
\* in a user_malloc, the pages alloc_page_with_vm handed out.
FreshPages == {pg \in WatchedPages : LeafValid(mem', pg * PGSIZE) /\ ~LeafValid(mem, pg * PGSIZE)}

\* C12: g_ufree_page never decreases, user_free leaves it alone, and the
\* pages a user_malloc hands out are one per PGSIZE the cursor advanced, at
\* or above the cursor before the call, below the cursor after it, and above
\* every page that was mapped before.
C12_CursorMonotone ==
  [][/\ g_ufree_page' >= g_ufree_page
     /\ last'.op = "user_free" => g_ufree_page' = g_ufree_page
     /\ (last'.op = "user_malloc" /\ ~panicked') =>
           /\ Cardinality(FreshPages) * PGSIZE
                = g_ufree_page' - ROUNDDOWN(g_ufree_page + PGSIZE - 1, PGSIZE)
           /\ \A pg \in FreshPages :
                 /\ g_ufree_page <= pg * PGSIZE
                 /\ pg * PGSIZE < g_ufree_page'
                 /\ \A old \in everMapped : old < pg]_vars

\* A page was handed out, a user_free followed, and a later user_malloc of
\* one page or more was given pages above it.
C12_Witness ==
  /\ Len(hist) = 3
  /\ IsMalloc(hist[1])
  /\ hist[2].op = "user_free" /\ hist[2].freed # <<>>
  /\ IsMalloc(hist[3]) /\ hist[3].size >= PGSIZE
  /\ hist[3].ret > hist[1].ret
  /\ g_ufree_page >= USER_FREE_ADDRESS_START + 3 * PGSIZE

\* The valid segment list, the bytes of a segment and its page.
SegList == ListOf(nd, valid_segment_info_head)

Bytes(n, a) == {x \in 0..(HeapTop + PGSIZE) : Rd(n, a).va <= x /\ x < Rd(n, a).va + Rd(n, a).size}

PageOfSeg(n, a) == ROUNDDOWN(Rd(n, a).va, PGSIZE)

\* No node is twice on the list and no two nodes share a byte.
SegsDisjoint(L) ==
  \A i, j \in 1..Len(L) : i # j => (L[i] # L[j] /\ Bytes(nd, L[i]) \cap Bytes(nd, L[j]) = {})

\* A segment has PGSIZE bytes at most, all in the page of its first.
SegsInPage(L) ==
  \A i \in 1..Len(L) :
     /\ Rd(nd, L[i]).size <= PGSIZE
     /\ Rd(nd, L[i]).va + Rd(nd, L[i]).size <= PageOfSeg(nd, L[i]) + PGSIZE

\* The nodes of one page are a run of the list.
SegsContiguous(L) ==
  \A i, j \in 1..Len(L) :
     (i < j /\ PageOfSeg(nd, L[i]) = PageOfSeg(nd, L[j])) =>
        \A k \in i..j : PageOfSeg(nd, L[k]) = PageOfSeg(nd, L[i])

\* Neighbours of one page: the first ends where the second starts or below.
SegsOrdered(L) ==
  \A i \in 1..(Len(L) - 1) :
     PageOfSeg(nd, L[i]) = PageOfSeg(nd, L[i + 1]) =>
        Rd(nd, L[i]).va + Rd(nd, L[i]).size <= Rd(nd, L[i + 1]).va

\* C13: after every user_malloc / user_free call with request sizes
\* 0..PGSIZE-1, two distinct nodes of the valid list cover disjoint byte
\* ranges, every segment has size <= PGSIZE and lies in one page, and the
\* segments of one page are a run of the list in address order.
C13_Geometry ==
  /\ SegsDisjoint(SegList)
  /\ SegsInPage(SegList)
  /\ SegsContiguous(SegList)
  /\ SegsOrdered(SegList)

\* Two pages hold segments, one of them of size 0 at the address of its
\* successor, and a user_free has just returned.
C13_Witness ==
  /\ last.op = "user_free"
  /\ Len(SegList) >= 5
  /\ \E i, j \in 1..Len(SegList) : PageOfSeg(nd, SegList[i]) # PageOfSeg(nd, SegList[j])
  /\ \E i \in 1..(Len(SegList) - 1) :
        /\ Rd(nd, SegList[i]).size = 0
        /\ Rd(nd, SegList[i]).va = Rd(nd, SegList[i + 1]).va

(***************************************************************************)
(* Properties of prot_to_type.                                             *)
(***************************************************************************)
Has(x, bit) == BitAnd(x, bit) # 0

\* The values of the user argument that stand for u: 0, or every nonzero.
UserValues(u) == IF u = 0 THEN {0} ELSE 1..MaxUser

\* perm is the permission the claim states for prot and user.
PermAsStated(prot, user, perm) ==
  /\ Has(perm, PTE_R) <=> (Has(prot, PROT_READ) \/ prot = PROT_NONE)
  /\ Has(perm, PTE_W) <=> Has(prot, PROT_WRITE)
  /\ Has(perm, PTE_D) <=> Has(prot, PROT_WRITE)
  /\ Has(perm, PTE_X) <=> Has(prot, PROT_EXEC)
  /\ Has(perm, PTE_A) <=> (Has(prot, PROT_READ) \/ Has(prot, PROT_EXEC))
  /\ Has(perm, PTE_U) <=> user # 0
  /\ BitClear(perm, PTE_R + PTE_W + PTE_X + PTE_U + PTE_A + PTE_D) = 0

\* C14: for every prot and user of a call site, prot_to_type(prot, user)
\* has PTE_R iff READ or nothing is requested, PTE_W and PTE_D iff WRITE,
\* PTE_X iff EXEC, PTE_A iff READ or EXEC, PTE_U iff user is nonzero, and
\* no other bit, PTE_V neither; it is the perm the site maps with.
C14_ProtToType ==
  /\ \A user \in UserValues(site.user) :
        PermAsStated(site.prot, user, prot_to_type(site.prot, user))
  /\ IsMapCall(last) => PermAsStated(site.prot, site.user, last.perm)

\* A user site that requests nothing has mapped a page readable.
C14_Witness ==
  /\ site.prot = PROT_NONE
  /\ site.user # 0
  /\ MapReturned(last)
  /\ last.perm = PTE_R + PTE_U

\* C15: when a user_free of a small allocation leaves, after merging, a
\* segment of size PGSIZE, the page is unmapped and passed to free_page, the
\* node leaves the valid list for the empty list, and no node of the valid
\* list describes the unmapped page afterwards.
C15_WholePageReleasesNode ==
  [][(/\ last'.op = "user_free"
      /\ Freed(nd, last'.va) # NULL
      /\ Rd(nd', Freed(nd, last'.va)).size = PGSIZE
      /\ LeafValid(mem, Rd(nd', Freed(nd, last'.va)).va)) =>
       /\ ~LeafValid(mem', Rd(nd', Freed(nd, last'.va)).va)
       /\ Len(last'.freed) = 1
       /\ Freed(nd, last'.va) \notin Range(ListOf(nd', valid_segment_info_head))
       /\ Freed(nd, last'.va) \in Range(ListOf(nd', empty_segment_info_head))
       /\ SegsOnPage(nd', ROUNDDOWN(last'.va, PGSIZE)) = {}]_vars

IsFree(n, a) == Rd(n, a).occupy = 0

\* C16: after every user_malloc / user_free call the valid segment list has
\* no two neighbours that are both free and lie in the same page, so the
\* predecessor and the successor are all the free neighbours user_free_small
\* has to merge.
C16_EagerCoalescing ==
  \A i \in 1..(Len(SegList) - 1) :
     PageOfSeg(nd, SegList[i]) = PageOfSeg(nd, SegList[i + 1]) =>
        ~(IsFree(nd, SegList[i]) /\ IsFree(nd, SegList[i + 1]))

\* A user_free has left two free segments of one page with an occupied one
\* between them.
C16_Witness ==
  /\ last.op = "user_free"
  /\ \E i \in 1..(Len(SegList) - 2) :
        /\ PageOfSeg(nd, SegList[i]) = PageOfSeg(nd, SegList[i + 2])
        /\ IsFree(nd, SegList[i])
        /\ ~IsFree(nd, SegList[i + 1])
        /\ IsFree(nd, SegList[i + 2])
        /\ Rd(nd, SegList[i + 1]).size > 0

\* Every node a pool has carved is on exactly one of its two lists.
OnOneList(valid, empty) ==
  \A a \in PoolNodes(nd, carved, empty) :
     (a \in Range(ListOf(nd, valid))) # (a \in Range(ListOf(nd, empty)))

\* The links of the nodes reachable from head agree with their neighbours.
LinksConsistent(head) ==
  \A x \in Range(ListOf(nd, head)) :
     /\ Rd(nd, x).suc = NULL \/ Rd(nd, Rd(nd, x).suc).pre = x
     /\ Rd(nd, Rd(nd, x).pre).suc = x

\* C17: after every user_malloc / user_free call every node a pool has
\* carved, Segment Info and Page Info alike, is on exactly one of the valid
\* and the empty list of its pool, and the links of every node reachable
\* from a list head are consistent: x.suc is NULL or x.suc.pre = x, and
\* x.pre.suc = x.
C17_ListMembership ==
  /\ OnOneList(valid_segment_info_head, empty_segment_info_head)
  /\ OnOneList(valid_page_info_head, empty_page_info_head)
  /\ \A head \in Heads : LinksConsistent(head)

\* The positions of the valid list, as it stands, whose node is free and
\* has size bytes or more.
FitsAt(size) ==
  {i \in 1..Len(SegList) : IsFree(nd, SegList[i]) /\ Rd(nd, SegList[i]).size >= size}

FirstFitting(size) == SegList[CHOOSE i \in FitsAt(size) : \A j \in FitsAt(size) : i <= j]

\* user_malloc took the node p of the list before the call: no page is
\* mapped, the cursor stays, p is occupied with the size asked for.
TookNode(c, p) ==
  /\ c.ret = Rd(nd, p).va
  /\ g_ufree_page' = g_ufree_page
  /\ FreshPages = {}
  /\ Segment(nd', p) = <<Rd(nd, p).va, c.size, 1>>

\* user_malloc mapped one page at the cursor and took it: the node of the
\* page is new, heads the list and is occupied with the size asked for.
TookNewPage(c) ==
  /\ c.ret = ROUNDDOWN(g_ufree_page + PGSIZE - 1, PGSIZE)
  /\ g_ufree_page' = c.ret + PGSIZE
  /\ FreshPages = {c.ret \div PGSIZE}
  /\ Rd(nd', valid_segment_info_head).suc \notin Range(SegList)
  /\ Segment(nd', Rd(nd', valid_segment_info_head).suc) = <<c.ret, c.size, 1>>

\* C18: user_malloc(size) with size < PGSIZE returns the start of the first
\* node, in the order of the valid list before the call, that is free and
\* has size bytes or more; it maps one new page and advances the cursor if
\* and only if there is no such node, and then uses the segment of the new
\* page.
C18_FirstFit ==
  [][(last'.op = "user_malloc" /\ last'.size < PGSIZE /\ ~panicked') =>
       IF FitsAt(last'.size) # {}
       THEN TookNode(last', FirstFitting(last'.size))
       ELSE TookNewPage(last')]_vars

\* Two pages hold a free segment each that fits, and user_malloc took the
\* one of the page mapped last, which is first on the list.
C18_Witness ==
  /\ Len(hist) = 3
  /\ \A i \in 1..3 : IsMalloc(hist[i]) /\ hist[i].size < PGSIZE
  /\ hist[2].ret = hist[1].ret + PGSIZE
  /\ hist[3].ret = hist[2].ret + hist[2].size
  /\ \E i \in 1..Len(SegList) :
        /\ IsFree(nd, SegList[i])
        /\ Rd(nd, SegList[i]).size >= hist[3].size
        /\ PageOfSeg(nd, SegList[i]) = hist[1].ret

\* The allocations at va that are live after the first i calls of the run:
\* user_malloc calls that returned va less user_free calls of va.
LiveCount(va, i) ==
  Cardinality({j \in 1..i : IsMalloc(hist[j]) /\ hist[j].ret = va})
    - Cardinality({j \in 1..i : hist[j].op = "user_free" /\ hist[j].va = va})

\* Every user_free of the run was given the address of a live allocation.
FreesLive ==
  \A i \in 1..Len(hist) : hist[i].op = "user_free" => LiveCount(hist[i].va, i - 1) > 0

Max(a, b) == IF a >= b THEN a ELSE b

\* The page at va has a valid leaf entry, and its physical page is not on
\* the free list of the allocator.
Backed(va) ==
  /\ LeafValid(mem, va)
  /\ user_va_to_pa(mem, fq, page_dir, va).ret # NULL
  /\ FrameOf(PTE2PA(LeafPte(mem, va))) \notin Range(fq)

\* C19: in a run whose user_free calls are given live addresses, when
\* user_malloc(size) returns va every page of [va, va + max(size, 1)) has a
\* valid leaf entry and its physical page is held.
C19_ReturnedIsBacked ==
  (FreesLive /\ IsMalloc(last) /\ ~panicked) =>
     \A pg \in PagesOf(last.ret, Max(last.size, 1)) : Backed(pg * PGSIZE)

\* Some leaf entry of the heap is valid and holds the physical page pa.
MappedSomewhere(pa) ==
  \E pg \in WatchedPages : LeafValid(mem, pg * PGSIZE) /\ PTE2PA(LeafPte(mem, pg * PGSIZE)) = pa

\* C20: in a run whose user_free calls are given live addresses, every
\* physical page a user_free passes to free_page is passed once, is not on
\* the free list already (it was not freed since alloc_page returned it),
\* and had a valid leaf entry before the call.
C20_NoDoubleFree ==
  [][(last'.op = "user_free" /\ FreesLive') =>
       \A i \in 1..Len(last'.freed) :
          /\ Count(last'.freed, last'.freed[i]) = 1
          /\ FrameOf(last'.freed[i]) \notin Range(fq)
          /\ MappedSomewhere(last'.freed[i])]_vars

\* C21: in a run of user_malloc calls with sizes 0..PGSIZE-1 and user_free
\* calls of live addresses, no two occupied nodes of the valid list have
\* the same start address, so the first node at va, the one user_free(va)
\* acts on, is the allocation user_malloc returned va for.
C21_DistinctLive ==
  FreesLive =>
    \A i, j \in 1..Len(SegList) :
       (i # j /\ ~IsFree(nd, SegList[i]) /\ ~IsFree(nd, SegList[j])) =>
          Rd(nd, SegList[i]).va # Rd(nd, SegList[j]).va

====
